---- MODULE Spec2Model ----
(***************************************************************************)
(* Model of src/transcribe_raw_originals.py: one run of main() uploads a   *)
(* local audio file to S3, starts an Amazon Transcribe job, polls the job  *)
(* status, downloads the result document, extracts the transcript into     *)
(* the output file and removes the downloaded temporary file.              *)
(*                                                                         *)
(* Python strings that the script takes apart or puts together (paths,     *)
(* keys, job names) are sequences of one-character strings.  File          *)
(* contents and status values, which the script only compares or copies,   *)
(* are TLA+ strings.                                                       *)
(***************************************************************************)
EXTENDS Integers, Sequences, FiniteSets, TLC

\* ------------------------------------------------------------------ bounds
\* The query and sleep counters of a run running alone stop counting at
\* MaxPolls (the loop itself goes on).
MaxPolls == 3
\* The wall clock is observed for MaxTick ticks.
MaxTick == 2
\* Clock ticks per second: datetime.now() is finer than the %S field.
TicksPerSecond == 2

\* The workflow instances (processes running main()).
Runs == {1, 2}

\* ----------------------------------------------------------------- strings
Slash == "/"
Dot == "."

\* The index of the last occurrence of c in s, 0 when there is none
\* (str.rfind, shifted to 1-based indices).
RFind(s, c) ==
    LET hits == {i \in 1..Len(s) : s[i] = c}
    IN  IF hits = {} THEN 0 ELSE CHOOSE i \in hits : \A j \in hits : j <= i

\* os.path.basename (posixpath): what follows the last "/".
basename(p) == SubSeq(p, RFind(p, Slash) + 1, Len(p))

\* os.path.splitext(p)[0] (genericpath._splitext): p up to its last dot, when
\* that dot follows the last "/" and some character other than a dot stands
\* between the two; otherwise p itself.
splitext_root(p) ==
    LET sepIndex == RFind(p, Slash)
        dotIndex == RFind(p, Dot)
    IN  IF dotIndex > sepIndex
           /\ \E i \in (sepIndex + 1)..(dotIndex - 1) : p[i] # Dot
        THEN SubSeq(p, 1, dotIndex - 1)
        ELSE p

DigitChars == <<"0", "1", "2", "3", "4", "5", "6", "7", "8", "9">>

\* Two decimal digits, zero padded (%H, %M, %S, ...).
Pad2(n) == <<DigitChars[((n \div 10) % 10) + 1], DigitChars[(n % 10) + 1]>>

\* The day on which the modelled runs start (%Y%m%d), and the second of that
\* day at clock tick 0: 11:59:59, so that the clock crosses a minute.
DateDigits == <<"2", "0", "2", "6", "1", "1", "0", "6">>
BaseSecondOfDay == (11 * 3600) + (59 * 60) + 59

\* The second of the day at clock tick t: strftime drops the fraction.
SecondOf(t) == BaseSecondOfDay + (t \div TicksPerSecond)

\* datetime.now().strftime("%Y%m%d%H%M%S") at clock tick t.
strftime(t) ==
    LET sec == SecondOf(t)
    IN  DateDigits \o Pad2((sec \div 3600) % 24) \o Pad2((sec \div 60) % 60)
                   \o Pad2(sec % 60)

\* Mutant: the bucket name comes from an environment variable that is not set.
s3_bucket_name_Unset == <<>>

\* The literals of main().
s3_bucket_name == <<"s", "a", "t", "-", "d", "d", "c">>
RawAudioPrefix == <<"r", "a", "w", "_", "a", "u", "d", "i", "o", "/">>
TranscriptionsPrefix ==
    <<"r", "a", "w", "_", "a", "u", "d", "i", "o", "_", "t", "r", "a", "n", "s",
      "c", "r", "i", "p", "t", "i", "o", "n", "s", "/">>
JsonSuffix == <<".", "j", "s", "o", "n">>
S3Scheme == <<"s", "3", ":", "/", "/">>

\* Mutant: the job name without the timestamp.
transcription_job_name_NoTimestamp(local_file_path, timestamp) ==
    splitext_root(basename(local_file_path))

\* Mutant: one output key for every job.
transcription_output_key_Fixed(job) ==
    TranscriptionsPrefix \o <<"o", "u", "t">> \o JsonSuffix

\* Mutant: the upload key is built from the whole input path.
s3_object_name_WholePath(local_file_path) == RawAudioPrefix \o local_file_path

\* The names main() derives from its input path and the timestamp.
s3_object_name(local_file_path) == RawAudioPrefix \o basename(local_file_path)

transcription_job_name(local_file_path, timestamp) ==
    splitext_root(basename(local_file_path)) \o <<"_">> \o timestamp

transcription_output_key(job) == TranscriptionsPrefix \o job \o JsonSuffix

\* Mutant: the media URI without the bucket.
s3_uri_NoBucket(bucket, key) == S3Scheme \o key

s3_uri(bucket, key) == S3Scheme \o bucket \o <<Slash>> \o key

temp_transcription_path(output_file_path) == output_file_path \o JsonSuffix

\* -------------------------------------------------------------------- JSON
\* A JSON value as json.load returns it: kind is "object", "list", "str",
\* "num" or "null"; s is a string's text; keys and items are an object's keys
\* and their values, in order; items alone are a list's elements.
JStr(s) == [kind |-> "str", s |-> s, keys |-> <<>>, items |-> <<>>]
JNull == [kind |-> "null", s |-> "", keys |-> <<>>, items |-> <<>>]
JList(items) == [kind |-> "list", s |-> "", keys |-> <<>>, items |-> items]
JObj(keys, items) == [kind |-> "object", s |-> "", keys |-> keys, items |-> items]

\* The result documents the object store may hold, as the bytes of the file.
DocHello == "{\"results\":{\"transcripts\":[{\"transcript\":\"hello world\"}]}}"
DocTwo ==
    "{\"results\":{\"transcripts\":[{\"transcript\":\"first\"},{\"transcript\":\"second\"}]}}"
DocEmptyText == "{\"results\":{\"transcripts\":[{\"transcript\":\"\"}]}}"
DocNoResults == "{\"jobName\":\"call\"}"
DocNoTranscripts == "{\"results\":{}}"
DocEmptyList == "{\"results\":{\"transcripts\":[]}}"
DocNoTranscript == "{\"results\":{\"transcripts\":[{}]}}"
DocNullTranscript == "{\"results\":{\"transcripts\":[{\"transcript\":null}]}}"
DocStrTranscripts == "{\"results\":{\"transcripts\":\"hello\"}}"
DocTopList == "[]"
DocNotJson == "<html>"

\* json.load on the bytes of a file: the parsed value, or a JSONDecodeError.
JsonLoad(text) ==
    LET T(v) == JObj(<<"results">>, <<JObj(<<"transcripts">>, <<v>>)>>)
        E(v) == JObj(<<"transcript">>, <<v>>)
        ok(v) == [ok |-> TRUE, value |-> v]
    IN  CASE text = DocHello -> ok(T(JList(<<E(JStr("hello world"))>>)))
          [] text = DocTwo -> ok(T(JList(<<E(JStr("first")), E(JStr("second"))>>)))
          [] text = DocEmptyText -> ok(T(JList(<<E(JStr(""))>>)))
          [] text = DocNoResults -> ok(JObj(<<"jobName">>, <<JStr("call")>>))
          [] text = DocNoTranscripts -> ok(JObj(<<"results">>, <<JObj(<<>>, <<>>)>>))
          [] text = DocEmptyList -> ok(T(JList(<<>>)))
          [] text = DocNoTranscript -> ok(T(JList(<<JObj(<<>>, <<>>)>>)))
          [] text = DocNullTranscript -> ok(T(JList(<<E(JNull)>>)))
          [] text = DocStrTranscripts -> ok(T(JStr("hello")))
          [] text = DocTopList -> ok(JList(<<>>))
          [] OTHER -> [ok |-> FALSE, value |-> JNull]

\* The first character of a Python string of the model.
StrHead(s) == IF s = "hello" THEN "h" ELSE "?"

\* v[key] for a string key: the value under the key of an object; a KeyError
\* when the object lacks it, a TypeError on anything that is not an object.
GetKey(v, key) ==
    IF v.kind = "object"
    THEN IF \E i \in 1..Len(v.keys) : v.keys[i] = key
         THEN [ok |-> TRUE,
               value |-> v.items[CHOOSE i \in 1..Len(v.keys) : v.keys[i] = key]]
         ELSE [ok |-> FALSE, value |-> JNull]
    ELSE [ok |-> FALSE, value |-> JNull]

\* Mutant: v[-1] in place of v[0].
GetFirst_TakesLast(v) ==
    CASE v.kind = "list" /\ Len(v.items) > 0 ->
            [ok |-> TRUE, value |-> v.items[Len(v.items)]]
      [] v.kind = "str" /\ v.s # "" -> [ok |-> TRUE, value |-> JStr(StrHead(v.s))]
      [] OTHER -> [ok |-> FALSE, value |-> JNull]

\* v[0]: the first element of a list (an IndexError on an empty one), the
\* first character of a string, a KeyError on an object (JSON keys are
\* strings), a TypeError on a number or null.
GetFirst(v) ==
    CASE v.kind = "list" /\ Len(v.items) > 0 -> [ok |-> TRUE, value |-> v.items[1]]
      [] v.kind = "str" /\ v.s # "" -> [ok |-> TRUE, value |-> JStr(StrHead(v.s))]
      [] OTHER -> [ok |-> FALSE, value |-> JNull]

\* data['results']['transcripts'][0]['transcript'] (line 69): the value at
\* the path, or the error the first failing subscript raises.
TranscriptOf(data) ==
    LET r == GetKey(data, "results")
        t == IF r.ok THEN GetKey(r.value, "transcripts") ELSE r
        f == IF t.ok THEN GetFirst(t.value) ELSE t
    IN  IF f.ok THEN GetKey(f.value, "transcript") ELSE f

\* ------------------------------------------------------------- local files
\* A path of the local file system: absent, or a file with its bytes.
NoFile == [exists |-> FALSE, data |-> ""]
File(data) == [exists |-> TRUE, data |-> data]

\* Mutant: the output file is opened for writing before the document is read.
extract_raw_transcript_OpensFirst(fs, input_file, output_file) ==
    LET opened == [fs EXCEPT ![output_file] = File("")]
    IN  IF ~opened[input_file].exists
        THEN [fs |-> opened, raised |-> TRUE]
        ELSE LET data == JsonLoad(opened[input_file].data)
                 transcript == IF data.ok THEN TranscriptOf(data.value) ELSE data
             IN  IF transcript.ok /\ transcript.value.kind = "str"
                 THEN [fs |-> [opened EXCEPT ![output_file] = File(transcript.value.s)],
                       raised |-> FALSE]
                 ELSE [fs |-> opened, raised |-> TRUE]

\* extract_raw_transcript(input_file, output_file) on the file system fs:
\* the file system it leaves and whether it raised.  The input is opened and
\* parsed and the transcript is looked up before the output is opened; the
\* output is opened for writing (created or truncated) before the write,
\* and f.write raises a TypeError on a transcript that is not a string.
extract_raw_transcript(fs, input_file, output_file) ==
    IF ~fs[input_file].exists
    THEN [fs |-> fs, raised |-> TRUE]
    ELSE LET data == JsonLoad(fs[input_file].data)
             transcript == IF data.ok THEN TranscriptOf(data.value) ELSE data
             opened == [fs EXCEPT ![output_file] = File("")]
         IN  IF ~transcript.ok
             THEN [fs |-> fs, raised |-> TRUE]
             ELSE IF transcript.value.kind = "str"
                  THEN [fs |-> [opened EXCEPT ![output_file] = File(transcript.value.s)],
                        raised |-> FALSE]
                  ELSE [fs |-> opened, raised |-> TRUE]

\* ------------------------------------------------------------- environment
\* The input paths given as --input_file: two files of the same basename in
\* different directories, one of the same stem with another extension, one of
\* another stem, and a dot file.
PathAC == <<"a", "/", "c", ".", "m", "4", "a">>
PathC == <<"c", ".", "m", "4", "a">>
PathCW == <<"c", ".", "w", "a", "v">>
PathD == <<"d", ".", "m", "4", "a">>
PathHidden == <<"a", "/", ".", "m", "4", "a">>
InputFiles == {PathAC, PathC, PathCW, PathD, PathHidden}

\* The paths given as --output_file.
OutT == <<"t">>
OutDir == <<"o", "/", "t", ".", "t", "x", "t">>
OutputFiles == {OutT, OutDir}

\* The paths of the local file system the runs can name.
LocalPaths ==
    InputFiles \cup OutputFiles \cup {temp_transcription_path(o) : o \in OutputFiles}

\* The bytes of the local audio files.
AudioOf(p) ==
    CASE p = PathAC -> "audio a/c.m4a"
      [] p = PathC -> "audio c.m4a"
      [] p = PathCW -> "audio c.wav"
      [] p = PathD -> "audio d.m4a"
      [] OTHER -> "audio .m4a"

OldTranscript == "old transcript"

Docs ==
    {DocHello, DocTwo, DocEmptyText, DocNoResults, DocNoTranscripts, DocEmptyList,
     DocNoTranscript, DocNullTranscript, DocStrTranscripts, DocTopList, DocNotJson}

\* What a client call meets: the service answers, or botocore raises a
\* ClientError (a transport or authorization error).
ClientError == "ClientError"
Answers == {"ok", ClientError}

\* The job statuses Amazon Transcribe reports.
Statuses == {"QUEUED", "IN_PROGRESS", "COMPLETED", "FAILED"}

\* The inputs of one workflow instance running alone, those of two instances
\* running side by side, and those of the instance whose progress is checked.
\* (polls: how far the history counters of a run count its queries and sleeps.)
EnvOne ==
    [inputs |-> InputFiles, outputs |-> OutputFiles, docs |-> Docs,
     statuses |-> Statuses \cup {ClientError}, polls |-> MaxPolls]
EnvTwo ==
    [inputs |-> {PathAC, PathC, PathCW, PathD}, outputs |-> {OutT},
     docs |-> {DocHello}, statuses |-> {"IN_PROGRESS", "COMPLETED"}, polls |-> 1]

EnvLive ==
    [inputs |-> {PathC}, outputs |-> {OutT}, docs |-> {DocHello, DocEmptyList},
     statuses |-> Statuses \cup {ClientError}, polls |-> MaxPolls]

\* A Python value that is a string or None.
PyNone(empty) == [none |-> TRUE, s |-> empty]
PyStr(s) == [none |-> FALSE, s |-> s]

\* ------------------------------------------------------------------- state
VARIABLES
    clock,      \* the wall clock, in ticks
    s3,         \* the object store: <<bucket, key>> -> bytes
    jobs,       \* the transcription jobs started, with their output location
    fs,         \* the local file system: path -> NoFile or File(bytes)
    pc,         \* where each run of main() stands
    ended,      \* the stage at which a finished run ended
    loc,        \* the local variables of each run of main()
    stages,     \* history: the stages a run performed, with their results
    nq,         \* history: the status queries of a run (up to MaxPolls)
    ns,         \* history: the sleeps of a run since its last status query
    nap,        \* history: the length of a run's last sleep, in seconds
    failed,     \* history: the client operations that returned a failure signal
    retried,    \* history: those invoked again after they had failed
    touched,    \* history: the remote resources a run's client calls named
    args        \* history: the arguments of a run's last client calls

vars ==
    <<clock, s3, jobs, fs, pc, ended, loc, stages, nq, ns, nap, failed, retried,
      touched, args>>

NoLocals ==
    [local_file_path |-> <<>>, output_file_path |-> <<>>, timestamp |-> <<>>,
     s3_object_name |-> <<>>, transcription_job_name |-> <<>>,
     transcription_output_key |-> <<>>, job_name |-> PyNone(<<>>),
     status |-> PyNone("")]

\* No client call made yet: upload is the object s3_client.upload_file was
\* given, media, out and job what start_transcription_job was given, query
\* the job name get_transcription_job_status was given, download the object
\* s3_client.download_file was given.
NoObject == [kind |-> "object", bucket |-> <<>>, name |-> <<>>]
NoArgs ==
    [upload |-> NoObject, media |-> <<>>, out |-> NoObject, job |-> <<>>,
     query |-> <<>>, download |-> NoObject]

\* Before any run: the input files exist, the output files may exist from an
\* earlier use, nothing is stored remotely.
Init ==
    /\ clock = 0
    /\ s3 = << >>
    /\ jobs = {}
    /\ \E old \in BOOLEAN :
          fs = [p \in LocalPaths |->
                  IF p \in InputFiles THEN File(AudioOf(p))
                  ELSE IF p \in OutputFiles /\ old THEN File(OldTranscript)
                  ELSE NoFile]
    /\ pc = [r \in Runs |-> "start"]
    /\ ended = [r \in Runs |-> ""]
    /\ loc = [r \in Runs |-> NoLocals]
    /\ stages = [r \in Runs |-> <<>>]
    /\ nq = [r \in Runs |-> 0]
    /\ ns = [r \in Runs |-> 0]
    /\ nap = [r \in Runs |-> 0]
    /\ failed = [r \in Runs |-> {}]
    /\ retried = [r \in Runs |-> {}]
    /\ touched = [r \in Runs |-> {}]
    /\ args = [r \in Runs |-> NoArgs]

\* ----------------------------------------------------------------- helpers
Object(bucket, key) == [kind |-> "object", bucket |-> bucket, name |-> key]
Job(name) == [kind |-> "job", bucket |-> <<>>, name |-> name]

Put(store, k, v) == [x \in (DOMAIN store) \cup {k} |-> IF x = k THEN v ELSE store[x]]

Stage(op, ok) == [op |-> op, ok |-> ok]

\* A client operation is invoked: a retry when it has failed before.
Invoke(r, op) ==
    retried' = [retried EXCEPT ![r] = IF op \in failed[r] THEN @ \cup {op} ELSE @]

\* ... and returns, with a failure signal or without.
Returned(r, op, ok) ==
    failed' = [failed EXCEPT ![r] = IF ok THEN @ ELSE @ \cup {op}]

Finish(r, how, stage) ==
    /\ pc' = [pc EXCEPT ![r] = how]
    /\ ended' = [ended EXCEPT ![r] = stage]

Goto(r, label) ==
    /\ pc' = [pc EXCEPT ![r] = label]
    /\ UNCHANGED ended

Min(a, b) == IF a < b THEN a ELSE b

\* The object a media URI s3://<bucket>/<key> names.
MediaObject(uri) ==
    LET rest == SubSeq(uri, Len(S3Scheme) + 1, Len(uri))
        cut == CHOOSE i \in 1..Len(rest) :
                  rest[i] = Slash /\ \A j \in 1..(i - 1) : rest[j] # Slash
    IN  Object(SubSeq(rest, 1, cut - 1), SubSeq(rest, cut + 1, Len(rest)))

\* ---------------------------------------------------------- the functions
\* upload_file: True, or False on a ClientError.
upload_file(resp) == resp # ClientError

\* Mutant: the upload stores an empty body.
S3AfterUpload_EmptyBody(store, bytes, bucket, object_name, resp) ==
    IF resp = ClientError THEN store ELSE Put(store, <<bucket, object_name>>, "")

\* The object store after s3_client.upload_file met resp.
S3AfterUpload(store, bytes, bucket, object_name, resp) ==
    IF resp = ClientError THEN store ELSE Put(store, <<bucket, object_name>>, bytes)

\* start_transcription_job: the job name of the response (the service echoes
\* the name it was given), or None on a ClientError.
start_transcription_job(job_name, resp) ==
    IF resp = ClientError THEN PyNone(<<>>) ELSE PyStr(job_name)

\* get_transcription_job_status: the status of the response, or None on a
\* ClientError.
get_transcription_job_status(resp) ==
    IF resp = ClientError THEN PyNone("") ELSE PyStr(resp)

\* download_file: True, or False on a ClientError (a transport error, or no
\* object under the key).
download_file(store, bucket, object_name, resp) ==
    resp # ClientError /\ <<bucket, object_name>> \in DOMAIN store

\* Mutant: the document is downloaded onto the output path itself.
FsAfterDownload_OntoOutput(files, store, bucket, object_name, file_name, resp) ==
    LET output == SubSeq(file_name, 1, Len(file_name) - Len(JsonSuffix))
    IN  IF download_file(store, bucket, object_name, resp)
        THEN [files EXCEPT ![output] = File(store[<<bucket, object_name>>])]
        ELSE files

\* The local file system after s3_client.download_file.
FsAfterDownload(files, store, bucket, object_name, file_name, resp) ==
    IF download_file(store, bucket, object_name, resp)
    THEN [files EXCEPT ![file_name] = File(store[<<bucket, object_name>>])]
    ELSE files

\* os.remove(path): the file system without the file.
os_remove(files, path) == [files EXCEPT ![path] = NoFile]

\* ------------------------------------------------- the branches of main()
\* if not s3_bucket_name: return
AfterConfig(bucket) == IF bucket = <<>> THEN "returned" ELSE "upload"

\* Mutant: the result of the upload is ignored.
AfterUpload_Ignored(ok) == "submit"

\* if upload_file(...): ... else: return
AfterUpload(ok) == IF ok THEN "submit" ELSE "returned"

\* Mutant: a job that could not be started raises out of main().
AfterSubmit_Raises(job_name) ==
    IF ~job_name.none /\ job_name.s # <<>> THEN "poll" ELSE "raised"

\* if job_name: ... else: return  (None and the empty string are false)
AfterSubmit(job_name) ==
    IF ~job_name.none /\ job_name.s # <<>> THEN "poll" ELSE "returned"

\* Mutant: the loop waits only while the job is queued or in progress.
AfterStatus_ExitsOnUnknown(status) ==
    IF status \in {PyStr("QUEUED"), PyStr("IN_PROGRESS")} THEN "sleep"
    ELSE IF status = PyStr("FAILED") THEN "returned"
    ELSE "download"

\* Mutant: a status query that failed leaves the loop as a completed job does.
AfterStatus_NoneBreaks(status) ==
    IF status = PyStr("COMPLETED") \/ status.none THEN "download"
    ELSE IF status = PyStr("FAILED") THEN "returned"
    ELSE "sleep"

\* Mutant: the loop compares the status with a misspelt 'COMPLETE'.
AfterStatus_Misspelt(status) ==
    IF status = PyStr("COMPLETE") THEN "download"
    ELSE IF status = PyStr("FAILED") THEN "returned"
    ELSE "sleep"

\* Mutant: a status query that failed ends the run.
AfterStatus_GivesUpOnNone(status) ==
    IF status = PyStr("COMPLETED") THEN "download"
    ELSE IF status = PyStr("FAILED") \/ status.none THEN "returned"
    ELSE "sleep"

\* The body of the while True loop: break on COMPLETED, return on FAILED,
\* sleep and query again on anything else.
AfterStatus(status) ==
    IF status = PyStr("COMPLETED") THEN "download"
    ELSE IF status = PyStr("FAILED") THEN "returned"
    ELSE "sleep"

\* time.sleep(30)
PollInterval == 30

\* Mutant: the sleep grows with the number of queries made.
sleep_seconds_Backoff(attempt) == PollInterval * attempt

\* The argument of time.sleep after the attempt-th query: the same literal
\* each time.
sleep_seconds(attempt) == PollInterval

\* Mutant: a failed download is tried again.
AfterDownload_Retries(ok) == IF ok THEN "extract" ELSE "download"

\* if download_file(...): extract, remove  else: (end of main)
AfterDownload(ok) == IF ok THEN "extract" ELSE "returned"

\* The extract call returns or raises out of main().
AfterExtract(raised) == IF raised THEN "raised" ELSE "remove"

Move(r, label, stage) ==
    IF label \in {"returned", "raised"} THEN Finish(r, label, stage) ELSE Goto(r, label)

\* ------------------------------------------------------------- the actions
\* Lines 75-92: the arguments are parsed, the clock is read, the names are
\* derived.
Start(r, E) ==
    /\ pc[r] = "start"
    /\ \E i \in E.inputs, o \in E.outputs :
          LET timestamp == strftime(clock)
              job == transcription_job_name(i, timestamp)
          IN  loc' = [loc EXCEPT ![r] =
                        [NoLocals EXCEPT
                           !.local_file_path = i,
                           !.output_file_path = o,
                           !.timestamp = timestamp,
                           !.s3_object_name = s3_object_name(i),
                           !.transcription_job_name = job,
                           !.transcription_output_key = transcription_output_key(job)]]
    /\ Move(r, AfterConfig(s3_bucket_name), "config")
    /\ UNCHANGED <<clock, s3, jobs, fs, stages, nq, ns, nap, failed, retried, touched,
                   args>>

\* Lines 94-99: the upload.
Upload(r) ==
    /\ pc[r] = "upload"
    /\ \E resp \in Answers :
          /\ s3' = S3AfterUpload(s3, fs[loc[r].local_file_path].data, s3_bucket_name,
                                 loc[r].s3_object_name, resp)
          /\ stages' = [stages EXCEPT ![r] = Append(@, Stage("upload", upload_file(resp)))]
          /\ Returned(r, "upload", upload_file(resp))
          /\ Move(r, AfterUpload(upload_file(resp)), "upload")
    /\ Invoke(r, "upload")
    /\ touched' = [touched EXCEPT ![r] =
                     @ \cup {Object(s3_bucket_name, loc[r].s3_object_name)}]
    /\ args' = [args EXCEPT ![r].upload = Object(s3_bucket_name, loc[r].s3_object_name)]
    /\ UNCHANGED <<clock, jobs, fs, loc, nq, ns, nap>>

\* Lines 101-108: the job is started.
Submit(r) ==
    /\ pc[r] = "submit"
    /\ \E resp \in Answers :
          LET uri == s3_uri(s3_bucket_name, loc[r].s3_object_name)
              job_name == start_transcription_job(loc[r].transcription_job_name, resp)
              request == [name |-> loc[r].transcription_job_name, media |-> uri,
                          bucket |-> s3_bucket_name,
                          key |-> loc[r].transcription_output_key]
          IN  /\ jobs' = IF resp = ClientError THEN jobs ELSE jobs \cup {request}
              /\ loc' = [loc EXCEPT ![r].job_name = job_name]
              /\ stages' = [stages EXCEPT ![r] = Append(@, Stage("submit", ~job_name.none))]
              /\ Returned(r, "submit", ~job_name.none)
              /\ Move(r, AfterSubmit(job_name), "submit")
              /\ touched' = [touched EXCEPT ![r] =
                               @ \cup {Job(request.name), MediaObject(uri),
                                       Object(request.bucket, request.key)}]
    /\ Invoke(r, "submit")
    /\ args' = [args EXCEPT
                  ![r].media = s3_uri(s3_bucket_name, loc[r].s3_object_name),
                  ![r].out = Object(s3_bucket_name, loc[r].transcription_output_key),
                  ![r].job = loc[r].transcription_job_name]
    /\ UNCHANGED <<clock, s3, fs, nq, ns, nap>>

\* Lines 112-120: one status query and the branch on its result.
Poll(r, E) ==
    /\ pc[r] = "poll"
    /\ \E resp \in E.statuses :
          LET status == get_transcription_job_status(resp)
              seen == Stage("query", status = PyStr("COMPLETED"))
          IN  /\ loc' = [loc EXCEPT ![r].status = status]
              /\ stages' = [stages EXCEPT ![r] =
                              IF @ # <<>> /\ @[Len(@)].op = "query"
                              THEN [@ EXCEPT ![Len(@)] = seen]
                              ELSE Append(@, seen)]
              /\ Returned(r, "query", ~status.none)
              /\ Move(r, AfterStatus(status), "job")
    /\ Invoke(r, "query")
    /\ nq' = [nq EXCEPT ![r] = Min(@ + 1, E.polls)]
    /\ ns' = [ns EXCEPT ![r] = 0]
    /\ touched' = [touched EXCEPT ![r] = @ \cup {Job(loc[r].job_name.s)}]
    /\ args' = [args EXCEPT ![r].query = loc[r].job_name.s]
    /\ UNCHANGED <<clock, s3, jobs, fs, nap>>

\* Line 121: the sleep between two queries.
Sleep(r, E) ==
    /\ pc[r] = "sleep"
    /\ ns' = [ns EXCEPT ![r] = Min(@ + 1, E.polls)]
    /\ nap' = [nap EXCEPT ![r] = sleep_seconds(nq[r])]
    /\ Goto(r, "poll")
    /\ UNCHANGED <<clock, s3, jobs, fs, loc, stages, nq, failed, retried, touched, args>>

\* Lines 123-126, 132-133: the download of the result document.
Download(r) ==
    /\ pc[r] = "download"
    /\ \E resp \in Answers :
          LET path == temp_transcription_path(loc[r].output_file_path)
              key == loc[r].transcription_output_key
              ok == download_file(s3, s3_bucket_name, key, resp)
          IN  /\ fs' = FsAfterDownload(fs, s3, s3_bucket_name, key, path, resp)
              /\ stages' = [stages EXCEPT ![r] = Append(@, Stage("download", ok))]
              /\ Returned(r, "download", ok)
              /\ Move(r, AfterDownload(ok), "download")
    /\ Invoke(r, "download")
    /\ touched' = [touched EXCEPT ![r] =
                     @ \cup {Object(s3_bucket_name, loc[r].transcription_output_key)}]
    /\ args' = [args EXCEPT
                  ![r].download = Object(s3_bucket_name, loc[r].transcription_output_key)]
    /\ UNCHANGED <<clock, s3, jobs, loc, nq, ns, nap>>

\* Line 129: the extraction.
Extract(r) ==
    /\ pc[r] = "extract"
    /\ LET res == extract_raw_transcript(
                      fs, temp_transcription_path(loc[r].output_file_path),
                      loc[r].output_file_path)
       IN  /\ fs' = res.fs
           /\ stages' = [stages EXCEPT ![r] = Append(@, Stage("extract", ~res.raised))]
           /\ Move(r, AfterExtract(res.raised), "extract")
    /\ UNCHANGED <<clock, s3, jobs, loc, nq, ns, nap, failed, retried, touched, args>>

\* Lines 130-131: the temporary file is removed; os.remove raises when the
\* file is gone.
Remove(r) ==
    /\ pc[r] = "remove"
    /\ LET path == temp_transcription_path(loc[r].output_file_path)
       IN  /\ fs' = IF fs[path].exists THEN os_remove(fs, path) ELSE fs
           /\ stages' = [stages EXCEPT ![r] = Append(@, Stage("remove", fs[path].exists))]
           /\ IF fs[path].exists
              THEN Finish(r, "returned", "success")
              ELSE Finish(r, "raised", "remove")
    /\ UNCHANGED <<clock, s3, jobs, loc, nq, ns, nap, failed, retried, touched, args>>

\* Time passes.  Only a run that has yet to start reads the clock.
Tick(R) ==
    /\ clock < MaxTick
    /\ \E r \in R : pc[r] = "start"
    /\ clock' = clock + 1
    /\ UNCHANGED <<s3, jobs, fs, pc, ended, loc, stages, nq, ns, nap, failed, retried,
                   touched, args>>

\* Amazon Transcribe writes the result document of a started job to the
\* output location the job was given (OutputBucketName, OutputKey).
ServiceWrite(E) ==
    /\ \E j \in jobs, d \in E.docs :
          /\ <<j.bucket, j.key>> \notin DOMAIN s3
          /\ s3' = Put(s3, <<j.bucket, j.key>>, d)
    /\ UNCHANGED <<clock, jobs, fs, pc, ended, loc, stages, nq, ns, nap, failed, retried,
                   touched, args>>

\* One step of run r of main().
RunNext(r, E) ==
    \/ Start(r, E)
    \/ Upload(r)
    \/ Submit(r)
    \/ Poll(r, E)
    \/ Sleep(r, E)
    \/ Download(r)
    \/ Extract(r)
    \/ Remove(r)

\* One workflow instance.
Next ==
    \/ RunNext(1, EnvOne)
    \/ Tick({1})
    \/ ServiceWrite(EnvOne)

Spec == Init /\ [][Next]_vars

\* One workflow instance that, as a running process does, takes its next
\* step.
NextLive ==
    \/ RunNext(1, EnvLive)
    \/ Tick({1})
    \/ ServiceWrite(EnvLive)

FairSpec == Init /\ [][NextLive]_vars /\ WF_vars(RunNext(1, EnvLive))

\* Two workflow instances side by side, on the same machine and bucket.
NextRuns ==
    \/ \E r \in Runs : RunNext(r, EnvTwo)
    \/ Tick(Runs)
    \/ ServiceWrite(EnvTwo)

SpecRuns == Init /\ [][NextRuns]_vars

\* Two workflow instances up to the derivation of their names, over all the
\* input and output paths.
NextDerive ==
    \/ \E r \in Runs : Start(r, EnvOne)
    \/ Tick(Runs)

SpecDerive == Init /\ [][NextDerive]_vars

\* ------------------------------------------------------------------ claims
COMPLETED == PyStr("COMPLETED")
FAILED == PyStr("FAILED")

Did(r, op) == \E i \in 1..Len(stages[r]) : stages[r][i].op = op
DidOk(r, op) == \E i \in 1..Len(stages[r]) : stages[r][i].op = op /\ stages[r][i].ok

TempOf(r) == temp_transcription_path(loc[r].output_file_path)
OutputKeyOf(r) == <<s3_bucket_name, loc[r].transcription_output_key>>
UploadKeyOf(r) == <<s3_bucket_name, loc[r].s3_object_name>>

\* C1: a step that leaves the poll loop for the download has just observed
\* COMPLETED, a step that leaves it by the 'job failed' return has just
\* observed FAILED, and a step that observes anything else (another status,
\* None) stays in the loop, at the sleep; so whenever the download has been
\* reached the last status observed is COMPLETED, and whenever the run ended
\* on the failed job it is FAILED.
C1_PollExits ==
    /\ [][\A r \in Runs :
            (pc[r] = "poll" /\ pc'[r] # "poll") =>
               /\ nq[r] < MaxPolls => nq'[r] = nq[r] + 1
               /\ pc'[r] \in {"download", "returned", "sleep"}
               /\ pc'[r] = "download" <=> loc'[r].status = COMPLETED
               /\ pc'[r] = "returned" <=> loc'[r].status = FAILED
               /\ pc'[r] = "returned" => ended'[r] = "job"]_vars
    /\ [](\A r \in Runs :
            /\ (pc[r] \in {"download", "extract", "remove"} \/ Did(r, "download"))
                  => loc[r].status = COMPLETED
            /\ ended[r] = "job" => loc[r].status = FAILED)

\* C1 witness: the loop was left for the download at the third query.
C1_Witness == pc[1] = "download" /\ nq[1] = 3 /\ loc[1].status = COMPLETED

StageOrder == <<"upload", "submit", "query", "download", "extract", "remove">>

\* C2: the stages a run has performed are an initial part of upload, submit,
\* status queries, download, extract, delete, each once (the queries as one
\* stage), and every stage but the last performed has succeeded: a stage
\* that failed is the last one of its run.
C2_StageOrder ==
    \A r \in Runs :
       /\ Len(stages[r]) <= Len(StageOrder)
       /\ \A i \in 1..Len(stages[r]) :
             /\ stages[r][i].op = StageOrder[i]
             /\ i < Len(stages[r]) => stages[r][i].ok
       /\ (Len(stages[r]) > 0 /\ ~stages[r][Len(stages[r])].ok
              /\ stages[r][Len(stages[r])].op # "query")
             => pc[r] \in {"returned", "raised"}

\* C2 witness: a run went through all six stages after two sleeps.
C2_Witness == Len(stages[1]) = 6 /\ nq[1] = 3 /\ ended[1] = "success"

\* C3 as claimed: no client operation, the status query included, is invoked
\* again after it returned the failure signal.
C3_NoRetryOfAnyOperation == \A r \in Runs : retried[r] = {}

\* C3 as amended: upload, submit and download are never invoked again after
\* they failed, and their failure ends the run at that stage; a status query
\* that failed (None) is followed by the sleep and another query.
C3_FailureTerminalButQuery ==
    \A r \in Runs :
       /\ retried[r] \subseteq {"query"}
       /\ \A op \in failed[r] \ {"query"} : pc[r] = "returned" /\ ended[r] = op
       /\ (nq[r] > 0 /\ loc[r].status.none) => pc[r] \in {"sleep", "poll"}

\* C3 witness: a run queried again after a failed query and then ended on a
\* failed download.
C3_Witness == "query" \in retried[1] /\ "download" \in failed[1]

\* The result documents with a string at results.transcripts[0].transcript,
\* and that string.
HasTranscriptString(doc) == doc \in {DocHello, DocTwo, DocEmptyText}
TranscriptString(doc) ==
    CASE doc = DocHello -> "hello world"
      [] doc = DocTwo -> "first"
      [] OTHER -> ""

\* C4: a run whose download succeeded on a document with a transcript string
\* has, once it has ended, ended in success, with the output file holding
\* exactly that string and the temporary file gone.
C4_EndToEnd ==
    \A r \in Runs :
       (pc[r] \in {"returned", "raised"} /\ DidOk(r, "download")
           /\ HasTranscriptString(s3[OutputKeyOf(r)])) =>
          /\ pc[r] = "returned" /\ ended[r] = "success"
          /\ fs[loc[r].output_file_path] = File(TranscriptString(s3[OutputKeyOf(r)]))
          /\ ~fs[TempOf(r)].exists

\* C4 witness: two non-terminal statuses, then COMPLETED, then "hello world"
\* in the output file.
C4_Witness ==
    /\ ended[1] = "success" /\ nq[1] = 3
    /\ loc[1].local_file_path = PathAC
    /\ fs[loc[1].output_file_path] = File("hello world")

\* The result documents without the path results.transcripts[0].transcript.
LacksTranscriptPath(doc) ==
    doc \in {DocNoResults, DocNoTranscripts, DocEmptyList, DocNoTranscript,
             DocStrTranscripts, DocTopList}

\* C5: the extraction of a document that lacks the transcript path raises
\* and leaves the output file as it was: not created, not emptied, not
\* written.
C5_ExtractMissingPath ==
    [][\A r \in Runs :
         (pc[r] = "extract" /\ pc'[r] # "extract" /\ fs[TempOf(r)].exists
             /\ LacksTranscriptPath(fs[TempOf(r)].data)) =>
            /\ pc'[r] = "raised"
            /\ fs'[loc[r].output_file_path] = fs[loc[r].output_file_path]]_vars

\* C5 witness: the extraction raised on an empty transcripts list and no
\* output file exists.
C5_Witness ==
    /\ ended[1] = "extract"
    /\ fs[TempOf(1)] = File(DocEmptyList)
    /\ ~fs[loc[1].output_file_path].exists

Started(r) == pc[r] # "start"
StemOf(r) == splitext_root(basename(loc[r].local_file_path))

\* C6 as claimed: two runs never submit a job under the same job name.
C6_JobNamesUnique ==
    \A r1 \in Runs, r2 \in Runs :
       (r1 # r2 /\ Did(r1, "submit") /\ Did(r2, "submit")) =>
          loc[r1].transcription_job_name # loc[r2].transcription_job_name

\* C6 as amended: two runs whose timestamps (the start time to the second)
\* differ or whose input file stems differ submit under different job names.
C6_JobNamesDifferByStemOrSecond ==
    \A r1 \in Runs, r2 \in Runs :
       (r1 # r2 /\ Did(r1, "submit") /\ Did(r2, "submit")
           /\ (loc[r1].timestamp # loc[r2].timestamp \/ StemOf(r1) # StemOf(r2))) =>
          loc[r1].transcription_job_name # loc[r2].transcription_job_name

\* C6 witness: both runs submitted a job for an input of stem c, one second
\* apart.
C6_Witness ==
    /\ Did(1, "submit") /\ Did(2, "submit")
    /\ StemOf(1) = <<"c">> /\ StemOf(2) = <<"c">>
    /\ loc[1].timestamp # loc[2].timestamp
    /\ loc[1].transcription_job_name # loc[2].transcription_job_name

\* C7 as claimed: two runs started at different seconds (their timestamps
\* differ) touch disjoint sets of remote objects and jobs.
C7_RunsDisjoint ==
    \A r1 \in Runs, r2 \in Runs :
       (r1 # r2 /\ Started(r1) /\ Started(r2)
           /\ loc[r1].timestamp # loc[r2].timestamp) =>
          touched[r1] \cap touched[r2] = {}

\* C7 as amended: two runs started at different seconds share no job and no
\* result object; they share the uploaded object (bucket, raw_audio/<basename>)
\* when their inputs have the same basename, and nothing otherwise.
C7_RunsShareOnlyTheUpload ==
    \A r1 \in Runs, r2 \in Runs :
       (r1 # r2 /\ Started(r1) /\ Started(r2)
           /\ loc[r1].timestamp # loc[r2].timestamp) =>
          /\ touched[r1] \cap touched[r2]
                \subseteq {Object(s3_bucket_name, loc[r1].s3_object_name)}
          /\ basename(loc[r1].local_file_path) # basename(loc[r2].local_file_path)
                => touched[r1] \cap touched[r2] = {}
          /\ (basename(loc[r1].local_file_path) = basename(loc[r2].local_file_path)
                 /\ Did(r1, "upload") /\ Did(r2, "upload"))
                => touched[r1] \cap touched[r2] # {}

\* C7 witness: two runs a second apart, given a/c.m4a and c.m4a, have both
\* downloaded, and the object store holds the second run's audio under the
\* key the first run uploaded to.
C7_Witness ==
    /\ loc[1].timestamp # loc[2].timestamp
    /\ loc[1].local_file_path = PathAC /\ loc[2].local_file_path = PathC
    /\ DidOk(1, "download") /\ DidOk(2, "download")
    /\ s3[UploadKeyOf(1)] = AudioOf(PathC)

\* C8: the object store never loses an object and the only local file that
\* ever disappears is the temporary file of a run at its remove step; once a
\* run's upload has succeeded the object (bucket, raw_audio/<basename>) holds
\* the bytes of its input file, whatever the run does later.
C8_NoRemoteDeletion ==
    /\ [][/\ \A k \in DOMAIN s3 : k \in DOMAIN s3' /\ s3'[k] = s3[k]
          /\ \A p \in LocalPaths :
                (fs[p].exists /\ ~fs'[p].exists) =>
                   \E r \in Runs : pc[r] = "remove" /\ pc'[r] # "remove" /\ p = TempOf(r)]_vars
    /\ [](\A r \in Runs :
            DidOk(r, "upload") =>
               /\ UploadKeyOf(r) \in DOMAIN s3
               /\ s3[UploadKeyOf(r)] = AudioOf(loc[r].local_file_path))

\* C8 witness: a run has ended on an extraction error and its upload is still
\* in the object store.
C8_Witness ==
    /\ ended[1] = "extract" /\ loc[1].local_file_path = PathCW
    /\ s3[UploadKeyOf(1)] = "audio c.wav"

\* C9: a run that ended on a failed upload, submit, job or download has
\* returned from main() as a successful run does; a run ends by an exception
\* only at the extraction, on a downloaded document that has no transcript
\* string.
C9_FailuresReturnNormally ==
    \A r \in Runs :
       /\ \A op \in {"upload", "submit", "download"} :
             op \in failed[r] => pc[r] = "returned" /\ ended[r] = op
       /\ loc[r].status = FAILED => pc[r] = "returned" /\ ended[r] = "job"
       /\ ended[r] = "success" => pc[r] = "returned"
       /\ pc[r] = "raised" =>
             /\ ended[r] = "extract"
             /\ fs[TempOf(r)].exists
             /\ ~HasTranscriptString(fs[TempOf(r)].data)

\* C9 witness: a run returned on the FAILED job after a failed query.
C9_Witness ==
    /\ pc[1] = "returned" /\ ended[1] = "job"
    /\ "query" \in failed[1]

\* C10: while no terminal status has been observed the run is in the loop,
\* at a query or a sleep, however many queries it has made; and from every
\* count k of queries answered without a terminal status it goes on to
\* query k+1.
C10_NoPollBudget ==
    /\ [](\A r \in Runs :
            (nq[r] > 0 /\ loc[r].status \notin {COMPLETED, FAILED})
               => pc[r] \in {"sleep", "poll"})
    /\ \A k \in 1..(MaxPolls - 1) :
          (nq[1] = k /\ loc[1].status \notin {COMPLETED, FAILED}) ~> (nq[1] = k + 1)
    /\ [][\A r \in Runs : (pc[r] = "sleep" /\ pc'[r] # "sleep") => pc'[r] = "poll"]_vars

\* C10 witness: a run sleeps again after as many non-terminal answers as are
\* counted.
C10_Witness ==
    /\ nq[1] = MaxPolls /\ pc[1] = "sleep"
    /\ loc[1].status = PyStr("IN_PROGRESS")

\* C11: two runs given inputs of the same basename at the same timestamp
\* derive the same upload key, the same job name and the same output key,
\* whatever the directories of their inputs and whatever their output paths;
\* the three names are raw_audio/<basename>, <stem>_<timestamp> and
\* raw_audio_transcriptions/<job name>.json.
C11_DerivationDeterministic ==
    \A r1 \in Runs, r2 \in Runs :
       (Started(r1) /\ Started(r2)
           /\ basename(loc[r1].local_file_path) = basename(loc[r2].local_file_path)
           /\ loc[r1].timestamp = loc[r2].timestamp) =>
          /\ loc[r1].s3_object_name = loc[r2].s3_object_name
          /\ loc[r1].transcription_job_name = loc[r2].transcription_job_name
          /\ loc[r1].transcription_output_key = loc[r2].transcription_output_key
          /\ loc[r1].s3_object_name
                = RawAudioPrefix \o basename(loc[r1].local_file_path)
          /\ loc[r1].transcription_job_name
                = StemOf(r1) \o <<"_">> \o loc[r1].timestamp
          /\ loc[r1].transcription_output_key
                = TranscriptionsPrefix \o loc[r1].transcription_job_name \o JsonSuffix

\* C11 witness: a/c.m4a with output t and c.m4a with output o/t.txt, started
\* within the second 11:59:59, both derive raw_audio/c.m4a and
\* c_20261106115959.
C11_Witness ==
    /\ loc[1].local_file_path = PathAC /\ loc[1].output_file_path = OutT
    /\ loc[2].local_file_path = PathC /\ loc[2].output_file_path = OutDir
    /\ loc[1].timestamp = loc[2].timestamp
    /\ loc[2].s3_object_name
          = <<"r", "a", "w", "_", "a", "u", "d", "i", "o", "/", "c", ".", "m", "4", "a">>
    /\ loc[1].transcription_job_name
          = <<"c", "_", "2", "0", "2", "6", "1", "1", "0", "6", "1", "1", "5", "9",
              "5", "9">>

\* C12: a status query that returned None (a ClientError) is handled as one
\* that returned QUEUED or IN_PROGRESS: the step goes to the sleep, the run
\* neither ends nor downloads, and the sleep that follows lasts one interval
\* and leads to the next query.
C12_NoneIsPolledAgain ==
    [][\A r \in Runs :
         /\ (pc[r] = "poll" /\ pc'[r] # "poll" /\ loc'[r].status.none) =>
               /\ pc'[r] = "sleep"
               /\ ended'[r] = ended[r]
               /\ ~Did(r, "download")' /\ fs' = fs
               /\ "query" \in failed'[r]
         /\ (pc[r] = "poll" /\ pc'[r] # "poll"
                /\ loc'[r].status \in {PyStr("QUEUED"), PyStr("IN_PROGRESS")}) =>
               pc'[r] = "sleep" /\ ended'[r] = ended[r] /\ fs' = fs
         /\ (pc[r] = "sleep" /\ pc'[r] # "sleep" /\ loc[r].status.none) =>
               pc'[r] = "poll" /\ ns'[r] = 1 /\ nap'[r] = 30]_vars

\* C12 witness: a run is at its third query after two queries that both
\* returned None.
C12_Witness ==
    /\ pc[1] = "poll" /\ nq[1] = 2 /\ loc[1].status.none
    /\ "query" \in retried[1] /\ ns[1] = 1

Ended(r) == pc[r] \in {"returned", "raised"}

\* C13: once a status query has been answered FAILED the run has returned
\* without a download; once one has been answered COMPLETED the run goes on
\* to the download and ends: in success after extraction and deletion, or on
\* the failed download, or on the extraction error.  So a run whose job is
\* eventually reported COMPLETED or FAILED eventually ends.
C13_TerminalStatusEndsRun ==
    /\ [](loc[1].status = FAILED =>
             (pc[1] = "returned" /\ ended[1] = "job" /\ ~Did(1, "download")))
    /\ (loc[1].status = COMPLETED) ~>
          (/\ Ended(1) /\ Did(1, "download")
           /\ ended[1] \in {"success", "download", "extract"}
           /\ ended[1] = "success" <=> (DidOk(1, "extract") /\ DidOk(1, "remove")))
    /\ (<>(loc[1].status \in {COMPLETED, FAILED})) => <>[]Ended(1)

\* C13 witness: after COMPLETED the run downloaded the document and ended on
\* the extraction error.
C13_Witness ==
    /\ loc[1].status = COMPLETED /\ pc[1] = "raised"
    /\ DidOk(1, "download") /\ ended[1] = "extract"

\* C14: a status query other than the first comes after exactly one sleep
\* since the query before it, and that sleep lasted 30 seconds whatever the
\* number of queries made; the first query comes after no sleep; and a run
\* that has observed COMPLETED or FAILED has not slept since.
C14_OneFixedSleepBetweenQueries ==
    /\ [][\A r \in Runs :
            /\ (pc[r] = "poll" /\ pc'[r] # "poll") =>
                  IF nq[r] = 0 THEN ns[r] = 0 /\ nap[r] = 0
                  ELSE ns[r] = 1 /\ nap[r] = 30
            /\ (pc[r] = "sleep" /\ pc'[r] # "sleep") =>
                  ns[r] = 0 /\ ns'[r] = 1 /\ nap'[r] = 30]_vars
    /\ [](\A r \in Runs :
            /\ loc[r].status \in {COMPLETED, FAILED} => ns[r] = 0 /\ pc[r] # "sleep"
            /\ nap[r] \in {0, 30})

\* C14 witness: a run is at its fourth query or later, one 30 second sleep
\* after the query before.
C14_Witness ==
    /\ pc[1] = "poll" /\ nq[1] = MaxPolls /\ ns[1] = 1 /\ nap[1] = 30
    /\ loc[1].status = PyStr("QUEUED")

\* C15 as claimed: whenever the extraction raises, the temporary file is
\* still there and the output file is as it was before the extraction:
\* neither created nor modified.
C15_RaiseLeavesOutputUntouched ==
    [][\A r \in Runs :
         (pc[r] = "extract" /\ pc'[r] = "raised") =>
            /\ ended'[r] = "extract"
            /\ fs'[TempOf(r)] = fs[TempOf(r)] /\ fs'[TempOf(r)].exists
            /\ ~Did(r, "remove")'
            /\ fs'[loc[r].output_file_path] = fs[loc[r].output_file_path]]_vars

\* C16: the media URI given to submit is s3://<bucket>/<key> for the bucket
\* and key the run uploaded to, and the job started points at them; the
\* object the run downloads is the output bucket and key it gave to submit;
\* every status query names the job name submit returned, which is the name
\* the job was started under.
C16_SameResources ==
    \A r \in Runs :
       /\ Did(r, "submit") =>
             /\ DidOk(r, "upload")
             /\ args[r].media
                   = S3Scheme \o args[r].upload.bucket \o <<"/">> \o args[r].upload.name
             /\ <<args[r].upload.bucket, args[r].upload.name>> \in DOMAIN s3
       /\ DidOk(r, "submit") =>
             \E j \in jobs :
                /\ j.name = args[r].job /\ j.media = args[r].media
                /\ Object(j.bucket, j.key) = args[r].out
                /\ loc[r].job_name = PyStr(j.name)
       /\ nq[r] > 0 => (~loc[r].job_name.none /\ args[r].query = loc[r].job_name.s
                           /\ args[r].query = args[r].job)
       /\ Did(r, "download") => (args[r].download = args[r].out
                                    /\ args[r].download.bucket = args[r].upload.bucket)

\* C16 witness: a run given a/c.m4a uploaded to raw_audio/c.m4a, queried its
\* job three times and downloaded raw_audio_transcriptions/<job name>.json.
C16_Witness ==
    /\ loc[1].local_file_path = PathAC /\ nq[1] = 3 /\ DidOk(1, "download")
    /\ args[1].upload.name = RawAudioPrefix \o PathC
    /\ args[1].download.name = TranscriptionsPrefix \o args[1].query \o JsonSuffix

\* C17: a step changes an output path only when it is the extraction of the
\* run that was given that path; so a run that ended on a failed upload,
\* submit, job or download leaves its output file as it was before the run,
\* absent or with its old content.
C17_OnlyExtractWritesOutput ==
    /\ [][\A p \in OutputFiles :
            fs'[p] # fs[p] =>
               \E r \in Runs : pc[r] = "extract" /\ pc'[r] # "extract"
                                  /\ loc[r].output_file_path = p]_vars
    /\ [](\A r \in Runs :
            ended[r] \in {"upload", "submit", "job", "download"} =>
               fs[loc[r].output_file_path] \in {NoFile, File(OldTranscript)})

\* C17 witness: a run ended on a failed download and the old transcript is
\* still in its output file.
C17_Witness ==
    /\ ended[1] = "download" /\ loc[1].status = COMPLETED
    /\ fs[loc[1].output_file_path] = File(OldTranscript)

\* C18: no run ends at the bucket name check: a run that has parsed its
\* arguments stands at the upload call or has made it, and the bucket it
\* names is the literal sat-ddc.
C18_BucketCheckNeverFails ==
    \A r \in Runs :
       /\ ended[r] # "config"
       /\ Started(r) => (pc[r] = "upload" \/ Did(r, "upload"))
       /\ Did(r, "upload") =>
             args[r].upload.bucket = <<"s", "a", "t", "-", "d", "d", "c">>

\* C18 witness: a run has parsed its arguments and stands at the upload call.
C18_Witness ==
    /\ pc[1] = "upload" /\ loc[1].local_file_path = PathD
    /\ stages[1] = <<>>

====
